---- MODULE Spec2Model ----
(***************************************************************************)
(* Channel ranking prototype (src/app.py): the UserProfile value object,   *)
(* rank_channels, and the Streamlit script main() with its session state   *)
(* and the USER_SCENARIOS presets.                                         *)
(*                                                                         *)
(* Numbers.  Scores and confidences are Python floats that the program     *)
(* only ever writes as multiples of 0.01 (the slider step is 0.05, the     *)
(* fixtures have two decimals).  They are modelled in hundredths (0.5 is   *)
(* 50), and a relevance, a sum of products, in ten-thousandths.  Floating  *)
(* point rounding of the products and of the sum is not modelled.          *)
(*                                                                         *)
(* Objects.  A Python dict of scores is an object that two names can       *)
(* share, so score dicts live in a heap (address -> contents) and          *)
(* topic_scores fields hold addresses.  A dict is a function whose DOMAIN  *)
(* is its key set; a channel is a dict with string keys.                   *)
(***************************************************************************)
EXTENDS Integers, Sequences, FiniteSets, TLC

VARIABLES
    heap,       \* address -> score dict: every live Dict[str, float] of scores
    profile,    \* user_profile.topic_scores: an address (0 before construction)
    caller,     \* the caller's own mapping, the argument of set_scores (0: none)
    session,    \* st.session_state: topic_scores (an address) and the slider_<key> entries
    channels,   \* the channel list handed to rank_channels, as the caller holds it
    ranked,     \* the list the last rank_channels call returned
    op          \* the last operation that ran, with its input

vars == <<heap, profile, caller, session, channels, ranked, op>>

\* The largest channel list handed to rank_channels.
MaxChannels == 2

\* 0.5 in hundredths: the neutral score.
Neutral == 50

\* 0.0 and 1.0 in hundredths: the slider's range.
MinScore == 0
MaxScore == 100

TOPIC_KEYS ==
    << "science_technology", "business", "us_politics", "faith_spirituality",
       "dating_relationships", "sports", "live_music", "entertainment",
       "personal_development", "health_wellness" >>

AllTopics == {TOPIC_KEYS[i] : i \in DOMAIN TOPIC_KEYS}

\* The topics the generated profiles and channels range over.
ModelTopics == {TOPIC_KEYS[1], TOPIC_KEYS[2]}

\* Scores a generated profile may store, confidences a generated channel may
\* declare (neither is validated by the code, so a negative one is included).
ScoreValues == {MinScore, Neutral, MaxScore}
ConfValues == {0 - 50, 0, 50}

EmptyDict == << >>

\* Every dict over a subset of keys K with values in V.
Dicts(K, V) == UNION {[D -> V] : D \in SUBSET K}

----------------------------------------------------------------------------
(* Python dict operations *)

\* d.get(k, default)
Get(d, k, default) == IF k \in DOMAIN d THEN d[k] ELSE default

\* d[k] = v
SetItem(d, k, v) == [x \in DOMAIN d \cup {k} |-> IF x = k THEN v ELSE d[x]]

\* The address a newly created dict gets: the first one not in use.
Alloc(h) == CHOOSE a \in 1..(Cardinality(DOMAIN h) + 1) :
                /\ a \notin DOMAIN h
                /\ \A b \in 1..(Cardinality(DOMAIN h) + 1) : b \notin DOMAIN h => a <= b

\* A new dict object holding `d`: the heap with it, and its address.
NewDict(h, d) ==
    LET a == Alloc(h)
    IN  [heap |-> [x \in DOMAIN h \cup {a} |-> IF x = a THEN d ELSE h[x]], ref |-> a]

\* Dicts no name refers to any more are collected.
Collect(h, roots) == [a \in DOMAIN h \cap roots |-> h[a]]

Reverse(s) == [i \in 1..Len(s) |-> s[Len(s) + 1 - i]]

----------------------------------------------------------------------------
(* rank_channels *)

\* .get(confidence, 0.5): the lookup uses the wrong key, so it always misses
score_for_wrong_key(topic_scores, topic) == Get(topic_scores, "confidence", Neutral)

\* .get(topic, 0): an absent topic counts as disliked
score_for_zero_default(topic_scores, topic) == Get(topic_scores, topic, 0)

\* user_profile.topic_scores.get(topic, 0.5)
score_for(topic_scores, topic) == Get(topic_scores, topic, Neutral)

\* sum(score_for(topic) * confidence for topic, confidence in topics.items())
RECURSIVE SumItems(_, _, _)
SumItems(topic_scores, topics, keys) ==
    IF keys = {} THEN 0
    ELSE LET topic == CHOOSE k \in keys : TRUE
         IN  score_for(topic_scores, topic) * topics[topic]
             + SumItems(topic_scores, topics, keys \ {topic})

\* sum(...) or 0.5: a relevance of 0 is taken for a missing one
relevance_or_neutral(topic_scores, channel) ==
    LET topics == Get(channel, "topics", EmptyDict)
        r == SumItems(topic_scores, topics, DOMAIN topics)
    IN  IF r = 0 THEN Neutral * 100 ELSE r

\* The relevance of one channel: the generator of lines 119-122 over
\* channel.get('topics', {}).items().
relevance(topic_scores, channel) ==
    LET topics == Get(channel, "topics", EmptyDict)
    IN  SumItems(topic_scores, topics, DOMAIN topics)

\* {**channel, 'relevance_score': relevance}: a new dict, the channel's fields
\* and the score.
Scored(topic_scores, channel) ==
    [k \in DOMAIN channel \cup {"relevance_score"} |->
        IF k = "relevance_score" THEN relevance(topic_scores, channel) ELSE channel[k]]

\* A loop that skips a channel declaring no topics.
RECURSIVE scored_channels_skip(_, _)
scored_channels_skip(topic_scores, chans) ==
    IF chans = << >> THEN << >>
    ELSE IF "topics" \in DOMAIN Head(chans)
         THEN <<Scored(topic_scores, Head(chans))>>
                  \o scored_channels_skip(topic_scores, Tail(chans))
         ELSE scored_channels_skip(topic_scores, Tail(chans))

\* The loop of lines 115-127: one scored record per channel, in input order.
scored_channels(topic_scores, chans) ==
    [i \in 1..Len(chans) |-> Scored(topic_scores, chans[i])]

\* Insert x into the ascending list s behind every element whose key is not
\* greater: the step of a stable sort.
RECURSIVE InsertStable(_, _)
InsertStable(s, x) ==
    IF s = << >> THEN <<x>>
    ELSE IF s[Len(s)].relevance_score <= x.relevance_score
         THEN Append(s, x)
         ELSE Append(InsertStable(SubSeq(s, 1, Len(s) - 1), x), s[Len(s)])

\* A stable sort by ascending relevance_score.
RECURSIVE StableSortAsc(_)
StableSortAsc(s) ==
    IF s = << >> THEN << >>
    ELSE InsertStable(StableSortAsc(SubSeq(s, 1, Len(s) - 1)), s[Len(s)])

\* sorted(...) without reverse=True
sorted_ascending(s) == StableSortAsc(s)

\* sort ascending, then reverse the result
sorted_then_reversed(s) == Reverse(StableSortAsc(s))

\* sorted(scored_channels, key=lambda x: x['relevance_score'], reverse=True).
\* CPython's list sort is stable; with reverse=True it reverses the list, sorts
\* it ascending and reverses the result, which keeps equal keys in input order.
sorted_reverse(s) == Reverse(StableSortAsc(Reverse(s)))

\* channels.sort(...) instead of sorted(...): the caller's list is reordered
rank_channels_in_place(h, p, chans) ==
    LET r == sorted_reverse(scored_channels(h[p], chans))
    IN  [ret |-> r,
         channels |-> [i \in 1..Len(r) |-> [k \in DOMAIN r[i] \ {"relevance_score"} |-> r[i][k]]],
         heap |-> h]

\* rank_channels(user_profile, channels), user_profile.topic_scores being the
\* dict at address p of heap h.  ret is the returned list; channels and heap are
\* the caller's list and the dicts as the call leaves them: the code reads both
\* and writes neither.
rank_channels(h, p, chans) ==
    [ret |-> sorted_reverse(scored_channels(h[p], chans)),
     channels |-> chans,
     heap |-> h]

----------------------------------------------------------------------------
(* The ranking engine called on generated inputs *)

NoSession == [topic_scores |-> 0, sliders |-> EmptyDict]

\* A channel with id i: with a topic mapping, or without the 'topics' key.
ChannelsWithId(i) ==
    {[id |-> i]} \cup {[id |-> i, topics |-> m] : m \in Dicts(ModelTopics, ConfValues)}

ChannelLists ==
    UNION {{s \in [1..n -> UNION {ChannelsWithId(i) : i \in 1..n}] :
                \A i \in 1..n : s[i].id = i} : n \in 0..MaxChannels}

Profiles == Dicts(ModelTopics, ScoreValues)

\* UserProfile.__init__(topics)
UserProfileInit(topics) == [t \in topics |-> Neutral]

InitRank ==
    /\ channels \in ChannelLists
    /\ heap = <<UserProfileInit(ModelTopics)>>
    /\ profile = 1
    /\ caller = 0
    /\ session = NoSession
    /\ ranked = << >>
    /\ op = <<"init">>

\* A caller gives the profile the scores P and ranks the channel list.
Rank(P) ==
    LET res == rank_channels([heap EXCEPT ![profile] = P], profile, channels)
    IN  /\ ranked' = res.ret
        /\ channels' = res.channels
        /\ heap' = res.heap
        /\ op' = <<"rank", P>>
        /\ UNCHANGED <<profile, caller, session>>

NextRank == \E P \in Profiles : Rank(P)

Spec == InitRank /\ [][NextRank]_vars

----------------------------------------------------------------------------
(* Properties of rank_channels, over every reachable state of Spec *)

Ranked == op[1] = "rank"

\* The profile the last call ranked against.
P == heap[profile]

\* The topic mapping of a record of the channel list or of the result.
TopicsOf(c) == Get(c, "topics", EmptyDict)

\* The sum the specification gives, taken over the whole topic registry: a topic
\* the channel lists contributes score * confidence, the score being the stored
\* one or 0.5; a topic it does not list contributes nothing.
RECURSIVE RegistrySum(_, _, _)
RegistrySum(scores, topics, n) ==
    IF n = 0 THEN 0
    ELSE LET t == TOPIC_KEYS[n]
         IN  (IF t \in DOMAIN topics
              THEN (IF t \in DOMAIN scores THEN scores[t] ELSE Neutral) * topics[t]
              ELSE 0)
             + RegistrySum(scores, topics, n - 1)

\* The result of ranking the current channel list against the scores q.
RankedAgainst(q) == rank_channels(<<q>>, 1, channels).ret

\* C1: rank_channels returns a list as long as its input that holds every input
\* channel id exactly as often as the input does; the empty list gives the
\* empty list.
C1_Permutation ==
    Ranked =>
        /\ Len(ranked) = Len(channels)
        /\ \A c \in 1..(MaxChannels + 1) :
               Cardinality({i \in DOMAIN ranked : ranked[i].id = c})
                   = Cardinality({i \in DOMAIN channels : channels[i].id = c})
        /\ (channels = << >> => ranked = << >>)

\* C1 witness: a call that returned two channels in another order than given,
\* one of them without a 'topics' key.
C1_Witness ==
    /\ Ranked
    /\ Len(ranked) = 2
    /\ ranked[1].id = 2
    /\ "topics" \notin DOMAIN ranked[2]

\* C2: each result's relevance_score is the sum over the channel's topics of
\* score * confidence with 0.5 for a topic the profile has no entry for; the
\* profile with its gaps filled by 0.5 gives the same result, and no channel is
\* skipped.
C2_Relevance ==
    Ranked =>
        /\ \A i \in DOMAIN ranked :
               ranked[i].relevance_score
                   = RegistrySum(P, TopicsOf(channels[ranked[i].id]), Len(TOPIC_KEYS))
        /\ ranked = RankedAgainst([t \in ModelTopics |-> IF t \in DOMAIN P THEN P[t] ELSE Neutral])
        /\ Len(ranked) = Len(channels)

\* C2 witness: a ranked channel lists a topic with a non-zero confidence that the
\* profile has no entry for, next to one it has a non-neutral entry for.
C2_Witness ==
    /\ Ranked
    /\ \E i \in DOMAIN ranked : \E t, u \in ModelTopics :
           /\ t \notin DOMAIN P
           /\ u \in DOMAIN P /\ P[u] = MaxScore
           /\ TopicsOf(ranked[i]) = (t :> 50) @@ (u :> 50)
           /\ ranked[i].relevance_score = 50 * Neutral + 50 * MaxScore

\* C3: the result is ordered by relevance_score, descending.
C3_Descending ==
    Ranked =>
        \A i, j \in DOMAIN ranked :
            i < j => ranked[i].relevance_score >= ranked[j].relevance_score

\* C3 witness: the input had the less relevant channel first and the call put it
\* second.
C3_Witness ==
    /\ Ranked
    /\ Len(ranked) = 2
    /\ ranked[1].id = 2
    /\ ranked[1].relevance_score > ranked[2].relevance_score

\* C4: two channels of equal relevance keep their input order (a channel's id is
\* its input position).
C4_Stable ==
    Ranked =>
        \A i, j \in DOMAIN ranked :
            /\ ranked[i].relevance_score = ranked[j].relevance_score
            /\ ranked[i].id < ranked[j].id
            => i < j

\* C4 witness: two channels with different topic mappings tie at a non-zero
\* relevance and come out in input order.
C4_Witness ==
    /\ Ranked
    /\ Len(ranked) = 2
    /\ ranked[1].relevance_score = ranked[2].relevance_score
    /\ ranked[1].relevance_score # 0
    /\ TopicsOf(ranked[1]) # TopicsOf(ranked[2])
    /\ ranked[1].id = 1

\* The profiles that differ from q only in a strictly lower score for topic t:
\* a lower stored score, or no entry (which counts 0.5) under a score above 0.5.
Lowered(q, t) ==
    {[q EXCEPT ![t] = v] : v \in {w \in ScoreValues : w < q[t]}}
        \cup (IF q[t] > Neutral THEN {[x \in DOMAIN q \ {t} |-> q[x]]} ELSE {})

C8_Pure ==
    [][op'[1] = "rank" =>
          /\ channels' = channels
          /\ \A i \in DOMAIN channels' : "relevance_score" \notin DOMAIN channels'[i]
          /\ heap' = <<op'[2]>>
          /\ ranked' = rank_channels(<<op'[2]>>, 1, channels).ret
          /\ (Ranked /\ op'[2] = op[2] => ranked' = ranked)]_vars

\* C8 witness: a call whose result is in another order than the channel list,
\* which is still in its own order and without scores.
C8_Witness ==
    /\ Ranked
    /\ Len(ranked) = 2
    /\ ranked[1].id = 2
    /\ channels[1].id = 1
    /\ DOMAIN channels[1] = {"id", "topics"}
    /\ P \in [{TOPIC_KEYS[1]} -> {MaxScore}]

\* The case of C9: every stored score is above 0 and every confidence is in [0, 1].
C9_Case ==
    /\ Ranked
    /\ \A t \in DOMAIN P : P[t] > 0
    /\ \A i \in DOMAIN channels : \A t \in DOMAIN TopicsOf(channels[i]) :
           TopicsOf(channels[i])[t] >= 0 /\ TopicsOf(channels[i])[t] <= 100

----------------------------------------------------------------------------
(* UserProfile and a caller that keeps the mapping it passed to set_scores *)

\* self.topic_scores = scores: the profile keeps the caller's dict itself
set_scores_alias(h, scores) == [heap |-> h, ref |-> scores]

\* UserProfile.set_scores(scores): self.topic_scores = scores.copy().  The heap
\* with the copy in it, and the address topic_scores now holds.
set_scores(h, scores) == NewDict(h, h[scores])

\* user_profile = UserProfile(ModelTopics)
InitProfile ==
    /\ heap = <<UserProfileInit(ModelTopics)>>
    /\ profile = 1
    /\ caller = 0
    /\ session = NoSession
    /\ channels = << >>
    /\ ranked = << >>
    /\ op = <<"init">>

\* The caller builds a mapping m of its own, complete or not.
CallerNew(m) ==
    LET n == NewDict(heap, m)
    IN  /\ caller' = n.ref
        /\ heap' = Collect(n.heap, {profile, n.ref})
        /\ op' = <<"new", m>>
        /\ UNCHANGED <<profile, session, channels, ranked>>

\* user_profile.set_scores(scores) with the caller's mapping.
SetScores ==
    /\ caller # 0
    /\ LET r == set_scores(heap, caller)
       IN  /\ profile' = r.ref
           /\ heap' = Collect(r.heap, {r.ref, caller})
    /\ op' = <<"set_scores">>
    /\ UNCHANGED <<caller, session, channels, ranked>>

\* user_profile.topic_scores[t] = v: one topic's score overwritten.
SetOne(t, v) ==
    /\ heap' = [heap EXCEPT ![profile] = SetItem(@, t, v)]
    /\ op' = <<"set_one", t, v>>
    /\ UNCHANGED <<profile, caller, session, channels, ranked>>

\* The caller changes the mapping it passed: scores[t] = v.
CallerWrite(t, v) ==
    /\ caller # 0
    /\ heap' = [heap EXCEPT ![caller] = SetItem(@, t, v)]
    /\ op' = <<"caller_write", t, v>>
    /\ UNCHANGED <<profile, caller, session, channels, ranked>>

NextProfile ==
    \/ \E m \in Profiles : CallerNew(m)
    \/ SetScores
    \/ \E t \in ModelTopics : \E v \in ScoreValues : SetOne(t, v)
    \/ \E t \in ModelTopics : \E v \in ScoreValues : CallerWrite(t, v)

SpecProfile == InitProfile /\ [][NextProfile]_vars

\* C6 as stated: the profile's topic_scores has an entry for every topic of the
\* registry it was created over, whatever mappings set_scores was given.
C6_Dense == DOMAIN heap[profile] = ModelTopics

\* C7: right after set_scores the profile's mapping has exactly the entries of
\* the argument and the argument is as it was; a later write to the caller's
\* mapping leaves the profile's scores as they were, a later write to the
\* profile's scores leaves the caller's mapping as it was, and the two are never
\* the same dict.
C7_DefensiveCopy ==
    [][/\ op'[1] = "set_scores" =>
              /\ heap'[profile'] = heap[caller]
              /\ caller' = caller /\ heap'[caller'] = heap[caller]
       /\ op'[1] = "caller_write" =>
              /\ profile' = profile /\ heap'[profile'] = heap[profile]
              /\ heap'[caller'][op'[2]] = op'[3]
       /\ (op'[1] = "set_one" /\ caller # 0) =>
              /\ caller' = caller /\ heap'[caller'] = heap[caller]
              /\ heap'[profile'][op'[2]] = op'[3]
       /\ profile' # caller']_vars

\* C7 witness: the profile holds the copy of an empty mapping, the caller wrote
\* a score into its mapping afterwards, and the profile still has no entry.
C7_Witness ==
    /\ op[1] = "caller_write"
    /\ heap[profile] = EmptyDict
    /\ heap[caller] = (op[2] :> op[3])

----------------------------------------------------------------------------
(* The Streamlit script main(): session state, presets, sliders *)

\* USER_SCENARIOS, in the order of the dict: key and scores, in hundredths.
USER_SCENARIOS ==
    << [key |-> "neutral", scores |-> [t \in AllTopics |-> 50]],
       [key |-> "tech_bro", scores |->
           [science_technology |-> 100, business |-> 80, personal_development |-> 40,
            health_wellness |-> 30, sports |-> 30, entertainment |-> 20,
            us_politics |-> 20, faith_spirituality |-> 10,
            dating_relationships |-> 20, live_music |-> 20]],
       [key |-> "wellness_enthusiast", scores |->
           [health_wellness |-> 100, personal_development |-> 80,
            faith_spirituality |-> 60, dating_relationships |-> 50,
            science_technology |-> 30, entertainment |-> 30, live_music |-> 40,
            business |-> 20, sports |-> 20, us_politics |-> 10]],
       [key |-> "sports_fan", scores |->
           [sports |-> 100, entertainment |-> 60, live_music |-> 40,
            health_wellness |-> 50, business |-> 30, science_technology |-> 30,
            personal_development |-> 30, dating_relationships |-> 30,
            faith_spirituality |-> 20, us_politics |-> 0]],
       [key |-> "generalist", scores |-> [t \in AllTopics |-> 70]],
       [key |-> "focused_specialist", scores |->
           [business |-> 100, science_technology |-> 20, us_politics |-> 20,
            faith_spirituality |-> 20, dating_relationships |-> 20, sports |-> 20,
            live_music |-> 20, entertainment |-> 20, personal_development |-> 20,
            health_wellness |-> 20]] >>

\* The score dict of scenario k is the k-th dict created: address k.
ScenarioAddrs == DOMAIN USER_SCENARIOS

\* Four of the SEED_CHANNELS, in catalog order, confidences in hundredths.
SEED_CHANNELS ==
    << [id |-> "tech_daily", name |-> "Tech Daily News",
        topics |-> [science_technology |-> 95]],
       [id |-> "startup_hustle", name |-> "Startup Hustle",
        topics |-> [business |-> 90]],
       [id |-> "capitol_watch", name |-> "Capitol Watch",
        topics |-> [us_politics |-> 92]],
       [id |-> "election_2026", name |-> "Election 2026 Countdown",
        topics |-> [us_politics |-> 85, business |-> 25]] >>

\* Lines 380-381: the first run creates the session's topic_scores, all 0.5.
ensure_topic_scores(h, s) ==
    IF s.topic_scores = 0
    THEN LET n == NewDict(h, UserProfileInit(AllTopics))
         IN  [heap |-> n.heap, session |-> [s EXCEPT !.topic_scores = n.ref]]
    ELSE [heap |-> h, session |-> s]

\* st.session_state.topic_scores = scenario["scores"], without .copy()
load_scenario_alias(h, s, k) ==
    [heap |-> h,
     session |-> [topic_scores |-> k,
                  sliders |-> [t \in DOMAIN s.sliders \cup DOMAIN h[k] |->
                                  IF t \in DOMAIN h[k] THEN h[k][t] ELSE s.sliders[t]]]]

\* Lines 404-407, the button of scenario k was clicked: topic_scores becomes a
\* copy of the scenario's scores and every slider_<topic> entry its score.
load_scenario(h, s, k) ==
    LET n == NewDict(h, h[k])
    IN  [heap |-> n.heap,
         session |-> [topic_scores |-> n.ref,
                      sliders |-> [t \in DOMAIN s.sliders \cup DOMAIN h[k] |->
                                      IF t \in DOMAIN h[k] THEN h[k][t] ELSE s.sliders[t]]]]

\* Lines 415-426 for the first n topics: topic_scores[key] = st.sidebar.slider(...,
\* value=topic_scores[key], key="slider_<key>").  A slider returns its entry of
\* the session state, which starts as `value` when there is none.
RECURSIVE slider_loop(_, _, _)
slider_loop(h, s, n) ==
    IF n = 0 THEN [heap |-> h, session |-> s]
    ELSE LET before == slider_loop(h, s, n - 1)
             key == TOPIC_KEYS[n]
             at == before.session.topic_scores
             value == Get(before.session.sliders, key, before.heap[at][key])
         IN  [heap |-> [before.heap EXCEPT ![at] = SetItem(@, key, value)],
              session |-> [before.session EXCEPT !.sliders = SetItem(@, key, value)]]

\* One run of main() with no button clicked: lines 380-381, the sliders, then
\* lines 432-436: a UserProfile whose topic_scores is the session's dict, ranked
\* against SEED_CHANNELS.  The dict UserProfile.__init__ made is dropped at once.
run_main(h, s, chans) ==
    LET e == ensure_topic_scores(h, s)
        l == slider_loop(e.heap, e.session, Len(TOPIC_KEYS))
        made == NewDict(l.heap, UserProfileInit(AllTopics))
        res == rank_channels(made.heap, l.session.topic_scores, chans)
    IN  [heap |-> Collect(res.heap, ScenarioAddrs \cup {l.session.topic_scores}),
         session |-> l.session,
         profile |-> l.session.topic_scores,
         channels |-> res.channels,
         ranked |-> res.ret]

\* The state before the page is first shown: the module-level dicts exist.
InitUI ==
    /\ heap = [k \in ScenarioAddrs |-> USER_SCENARIOS[k].scores]
    /\ profile = 0
    /\ caller = 0
    /\ session = NoSession
    /\ channels = SEED_CHANNELS
    /\ ranked = << >>
    /\ op = <<"init">>

Shown == session.topic_scores # 0

Finish(r, o) ==
    /\ heap' = r.heap
    /\ session' = r.session
    /\ profile' = r.profile
    /\ channels' = r.channels
    /\ ranked' = r.ranked
    /\ op' = o
    /\ UNCHANGED caller

\* The page is opened: the first run of the script.
PageLoad ==
    /\ ~Shown
    /\ Finish(run_main(heap, session, channels), <<"load">>)

\* The button of scenario k is clicked: the run loads the scenario and calls
\* st.rerun(), which runs the script again from the top.
ClickScenario(k) ==
    /\ Shown
    /\ LET b == load_scenario(heap, session, k)
       IN  Finish(run_main(b.heap, b.session, channels), <<"scenario", k>>)

\* The slider of topic t is moved to v: its session entry is v when the script
\* runs.
MoveSlider(t, v) ==
    /\ Shown
    /\ Finish(run_main(heap, [session EXCEPT !.sliders = SetItem(@, t, v)], channels),
              <<"slider", t, v>>)

NextUI ==
    \/ PageLoad
    \/ \E k \in ScenarioAddrs : ClickScenario(k)
    \/ \E t \in ModelTopics : \E v \in ScoreValues : MoveSlider(t, v)

SpecUI == InitUI /\ [][NextUI]_vars

\* C10: whatever was clicked and moved, every scenario's scores are the ones
\* the module defines; right after scenario k is loaded the session's
\* topic_scores are exactly k's scores; and the session's topic_scores is never
\* one of the scenarios' own dicts.
C10_PresetsIntact ==
    /\ \A k \in ScenarioAddrs : heap[k] = USER_SCENARIOS[k].scores
    /\ op[1] = "scenario" => heap[session.topic_scores] = USER_SCENARIOS[op[2]].scores
    /\ session.topic_scores \notin ScenarioAddrs

\* C10 witness: the tech_bro scenario was loaded and a slider then moved away
\* from its score: the session's scores are the scenario's but for that topic.
C10_Witness ==
    /\ op[1] = "slider"
    /\ heap[session.topic_scores] # USER_SCENARIOS[2].scores
    /\ heap[session.topic_scores] = [USER_SCENARIOS[2].scores EXCEPT ![op[2]] = op[3]]

====
